---- MODULE Spec2Model ----
(***************************************************************************)
(* Model of bot_streamer.py: the stream_cache registry filled by           *)
(* handle_link, the GET /stream/<message_id> handler with its fetch_file   *)
(* threads, the files of the stream_cache directory, and the               *)
(* cleanup_old_files loop.  Flask serves every request on its own thread   *)
(* and cleanup_old_files runs on the main thread's event loop, so the      *)
(* handlers, the fetch threads and the sweeper interleave between the      *)
(* statements modelled as separate actions below.                          *)
(***************************************************************************)
EXTENDS Integers, Sequences, FiniteSets

\* ------------------------------------------------------------ bounds
MaxId == 2        \* message ids 1..MaxId
MaxTime == 3      \* the clock runs over 0..MaxTime (hours)
MaxMint == 2      \* concurrent /webhook requests running handle_link
MaxGet == 2       \* concurrent GET /stream/<id> requests
MaxFetch == 2     \* concurrent fetch_file threads
MaxInode == 2     \* files of the cache directory that exist at one time
MaxRequests == 3  \* requests (/webhook and /stream) received in one run

\* ------------------------------------------------------------ program constants
TTL == 2              \* timedelta(hours=2)
ChunkSize == 65536    \* 64 * 1024

Ids == 1..MaxId
Inodes == 1..MaxInode

\* The payload the backing store holds for a message: 100 bytes for message 1,
\* one more full chunk for each following id.
PayloadSize(id) == 100 + (id - 1) * ChunkSize

\* Number of chunks iter_download yields for the payload of id.
NChunks(id) == (PayloadSize(id) + ChunkSize - 1) \div ChunkSize

\* The Range headers a client sends: none, bytes=10-19 and bytes=200- (end = -1
\* stands for an omitted end).
NoRange == [start |-> -1, end |-> -1]
RangeHeaders == {NoRange, [start |-> 10, end |-> 19], [start |-> 200, end |-> -1]}

NoEntry == [url |-> 0, expires_at |-> 0]

VARIABLES
    now,            \* datetime.utcnow(), in hours
    stream_cache,   \* message_id -> [url, expires_at]
    dir,            \* the cache directory: message_id -> inode of <id>.mp3, 0 when absent
    inode,          \* inode -> chunks of the file: TRUE payload data, FALSE a hole of zeros
    mint,           \* the handle_link invocations in progress
    get,            \* the get_stream invocations in progress
    fetch,          \* the fetch_file threads
    sweep,          \* cleanup_old_files
    lastMint,       \* history: what the last returned handle_link replied for the id
    swept,          \* history: ids whose entry was past TTL at a completed sweeper cycle
    minted,         \* history: ids for which handle_link ever stored an entry
    failed,         \* history: ids with a retrieval that ended in failure since the last mint
    requests        \* number of requests received so far

vars == <<now, stream_cache, dir, inode, mint, get, fetch, sweep, lastMint, swept, minted, failed, requests>>

\* ------------------------------------------------------------ helpers
Expired(id, t) == id \in DOMAIN stream_cache /\ stream_cache[id].expires_at < t

\* os.path.exists(file_path)
Exists(id) == dir[id] # 0

\* reply: the entry whose url and expires_at are sent; stale: that entry was past
\* its TTL when it was read; prev: see MintCheck.
IdleMint == [pc |-> "idle", id |-> 0, out |-> "", reply |-> NoEntry, stale |-> FALSE, prev |-> NoEntry]

IdleFetch == [pc |-> "idle", id |-> 0, ino |-> 0, off |-> 0]

\* The least slot of f that is idle, 0 when all are busy.
FreeSlot(f) ==
    IF \E i \in DOMAIN f : f[i].pc = "idle"
    THEN CHOOSE i \in DOMAIN f : f[i].pc = "idle" /\ \A j \in DOMAIN f : f[j].pc = "idle" => i <= j
    ELSE 0

\* Replace slot s of the slot table f by the record r.
Put(f, s, r) == [f EXCEPT ![s] = r]

\* stream_cache with the entry e stored under id.
Store(id, e) == [i \in DOMAIN stream_cache \cup {id} |-> IF i = id THEN e ELSE stream_cache[i]]

\* del stream_cache[id]
Del(id) == [i \in DOMAIN stream_cache \ {id} |-> stream_cache[i]]

\* ------------------------------------------------------------ handle_link
\* A message outside a private chat, or a text that link_pattern does not match:
\* handle_link returns (after the warning) and nothing changes.
MintInvalid ==
    LET s == FreeSlot(mint) IN
    /\ s # 0
    /\ requests < MaxRequests
    /\ requests' = requests + 1
    /\ mint' = Put(mint, s, [IdleMint EXCEPT !.pc = "done", !.out = "invalid"])
    /\ UNCHANGED <<now, stream_cache, dir, inode, get, fetch, sweep, lastMint, swept, minted, failed>>

\* The membership test `message_id in stream_cache` on a matching link.  prev
\* remembers what the last returned handle_link replied for the same id, when
\* that entry has not expired.
MintCheck(id) ==
    LET s == FreeSlot(mint) IN
    /\ s # 0
    /\ requests < MaxRequests
    /\ requests' = requests + 1
    /\ mint' = Put(mint, s, [IdleMint EXCEPT
            !.pc = IF id \in DOMAIN stream_cache THEN "read" ELSE "create",
            !.id = id,
            !.prev = IF lastMint[id] # NoEntry /\ lastMint[id].expires_at >= now
                     THEN lastMint[id] ELSE NoEntry])
    /\ UNCHANGED <<now, stream_cache, dir, inode, get, fetch, sweep, lastMint, swept, minted, failed>>

\* The branch that reads the cached entry; stream_cache[message_id] raises
\* KeyError when the entry has been deleted since the membership test, and
\* webhook() answers 500.
MintRead(s) ==
    /\ mint[s].pc = "read"
    /\ mint' = Put(mint, s,
            IF mint[s].id \in DOMAIN stream_cache
            THEN [mint[s] EXCEPT !.pc = "done", !.out = "ok",
                                 !.reply = stream_cache[mint[s].id],
                                 !.stale = Expired(mint[s].id, now)]
            ELSE [mint[s] EXCEPT !.pc = "done", !.out = "error"])
    /\ UNCHANGED <<now, stream_cache, dir, inode, get, fetch, sweep, lastMint, swept, minted, failed, requests>>

\* The entry handle_link stores for a link that is not cached.
NewEntry(id) == [url |-> id, expires_at |-> now + TTL]

\* The else branch: build the url, compute expires_at and store the entry.
MintCreate(s) ==
    /\ mint[s].pc = "create"
    /\ stream_cache' = Store(mint[s].id, NewEntry(mint[s].id))
    /\ mint' = Put(mint, s, [mint[s] EXCEPT !.pc = "done", !.out = "ok",
                                            !.reply = NewEntry(mint[s].id)])
    /\ minted' = minted \cup {mint[s].id}
    /\ swept' = swept \ {mint[s].id}
    /\ sweep' = [sweep EXCEPT !.due = @ \ {mint[s].id}]
    /\ failed' = failed \ {mint[s].id}
    /\ UNCHANGED <<now, dir, inode, get, fetch, lastMint, requests>>

\* The reply is sent and webhook() returns.
MintReply(s) ==
    /\ mint[s].pc = "done"
    /\ mint' = Put(mint, s, IdleMint)
    /\ lastMint' = IF mint[s].out = "ok"
                   THEN [lastMint EXCEPT ![mint[s].id] = mint[s].reply]
                   ELSE lastMint
    /\ UNCHANGED <<now, stream_cache, dir, inode, get, fetch, sweep, swept, minted, failed, requests>>

\* ------------------------------------------------------------ the cache directory
Readers(i) == {s \in DOMAIN get : get[s].pc = "read" /\ get[s].ino = i}

Writers(i) == {s \in DOMAIN fetch : fetch[s].pc = "write" /\ fetch[s].ino = i}

Named(i) == \E id \in Ids : dir[id] = i

\* The least inode that is neither a file of the directory nor held open.
FreeInode ==
    LET free == {i \in Inodes : ~Named(i) /\ Readers(i) = {} /\ Writers(i) = {}} IN
    IF free = {} THEN 0 ELSE CHOOSE i \in free : \A j \in free : i <= j

\* The file holds the whole payload of id.
Complete(c, id) == Len(c) = NChunks(id) /\ \A k \in 1..Len(c) : c[k]

\* f.write(chunk) at chunk offset off of a file holding c: the file grows to
\* off + 1 chunks, positions never written read as zeros.
WriteAt(c, off) ==
    [k \in 1..(IF Len(c) > off + 1 THEN Len(c) ELSE off + 1) |->
        IF k = off + 1 THEN TRUE ELSE IF k <= Len(c) THEN c[k] ELSE FALSE]

\* ------------------------------------------------------------ responses
\* Response(generate(), content_type='audio/mpeg'): status 200, a streamed body,
\* no Content-Range and no Content-Length (-1).
StreamResponse ==
    [status |-> 200, content_type |-> "audio/mpeg", body |-> "file",
     content_range |-> NoRange, content_length |-> -1]

\* Response(text, status=...): the body is the text, Content-Length its length.
TextResponse(status, length) ==
    [status |-> status, content_type |-> "text/html", body |-> "text",
     content_range |-> NoRange, content_length |-> length]

Gone == TextResponse(410, 37)       \* "Link scaduto. Richiedi un nuovo link."
Started == TextResponse(200, 20)    \* "Streaming started..."
Failed == TextResponse(500, 28)     \* "Errore durante lo streaming."

NoResponse == [status |-> 0, content_type |-> "", body |-> "", content_range |-> NoRange,
               content_length |-> -1]

\* How the registry and the directory stand for id at the moment a handler decides.
EntryState(id) ==
    IF id \notin DOMAIN stream_cache THEN "absent"
    ELSE IF stream_cache[id].expires_at < now THEN "expired" ELSE "live"

FileState(id) ==
    IF dir[id] = 0 THEN "absent"
    ELSE IF Complete(inode[dir[id]], id) THEN "complete" ELSE "partial"

\* pos: chunks read so far; zeros: a hole was read; fileAt: the file at the
\* exists test; entryAt and afterSweep: the registry and the sweeper's history
\* when the response was decided; afterFailure: a retrieval of the id had ended
\* in failure when the request arrived.
IdleGet ==
    [pc |-> "idle", id |-> 0, range |-> NoRange, resp |-> NoResponse, ino |-> 0, pos |-> 0,
     zeros |-> FALSE, entryAt |-> "", fileAt |-> "", afterSweep |-> FALSE,
     afterFailure |-> FALSE]

Decided(g, id) == [g EXCEPT !.entryAt = EntryState(id), !.afterSweep = id \in swept]

\* inode after a close or an unlink of i that leaves it with the given readers,
\* writers and name: the content is dropped once nothing refers to it.
Release(i, readers, writers, named) ==
    IF readers = {} /\ writers = {} /\ ~named THEN [inode EXCEPT ![i] = <<>>] ELSE inode

\* ------------------------------------------------------------ get_stream
\* os.path.exists(file_path): a file that exists is streamed whatever the
\* registry says; the body is produced later, by the generator.
GetExists(id, range) ==
    LET s == FreeSlot(get)
        g == [IdleGet EXCEPT !.id = id, !.range = range, !.fileAt = FileState(id),
                             !.afterFailure = id \in failed]
    IN
    /\ s # 0
    /\ requests < MaxRequests
    /\ requests' = requests + 1
    /\ get' = Put(get, s,
            IF Exists(id)
            THEN Decided([g EXCEPT !.pc = "open", !.resp = StreamResponse], id)
            ELSE [g EXCEPT !.pc = "member"])
    /\ UNCHANGED <<now, stream_cache, dir, inode, mint, fetch, sweep, lastMint, swept, minted, failed>>

\* `message_id not in stream_cache`: 410 for an id that has no entry.
GetMember(s) ==
    /\ get[s].pc = "member"
    /\ get' = Put(get, s,
            IF get[s].id \notin DOMAIN stream_cache
            THEN Decided([get[s] EXCEPT !.pc = "done", !.resp = Gone], get[s].id)
            ELSE [get[s] EXCEPT !.pc = "expiry"])
    /\ UNCHANGED <<now, stream_cache, dir, inode, mint, fetch, sweep, lastMint, swept, minted, failed, requests>>

\* GetExpiry without the comparison of expires_at with the clock: the thread is
\* started for every entry that is in the registry.
GetExpiryNoTtl(s) ==
    LET id == get[s].id
        f == FreeSlot(fetch)
        present == id \in DOMAIN stream_cache
    IN
    /\ get[s].pc = "expiry"
    /\ present => f # 0
    /\ get' = Put(get, s, Decided([get[s] EXCEPT !.pc = "done",
            !.resp = IF present THEN Started ELSE Failed], id))
    /\ fetch' = IF present THEN Put(fetch, f, [IdleFetch EXCEPT !.pc = "connect", !.id = id])
                ELSE fetch
    /\ UNCHANGED <<now, stream_cache, dir, inode, mint, sweep, lastMint, swept, minted, failed, requests>>

\* `stream_cache[message_id]["expires_at"] < datetime.utcnow()`: KeyError (500)
\* when the entry has been deleted since the membership test, 410 when it has
\* expired; otherwise the fetch_file thread is started and 200 is answered
\* at once.
GetExpiry(s) ==
    LET id == get[s].id
        f == FreeSlot(fetch)
        st == EntryState(id)
    IN
    /\ get[s].pc = "expiry"
    /\ st = "live" => f # 0
    /\ get' = Put(get, s, Decided([get[s] EXCEPT !.pc = "done",
            !.resp = IF st = "absent" THEN Failed ELSE IF st = "expired" THEN Gone ELSE Started],
            id))
    /\ fetch' = IF st = "live" THEN Put(fetch, f, [IdleFetch EXCEPT !.pc = "connect", !.id = id])
                ELSE fetch
    /\ UNCHANGED <<now, stream_cache, dir, inode, mint, sweep, lastMint, swept, minted, failed, requests>>

\* generate() starts: open(file_path, 'rb').  The status line is already sent;
\* a file deleted since the exists test makes open raise and the body break.
GetOpen(s) ==
    /\ get[s].pc = "open"
    /\ get' = Put(get, s,
            IF Exists(get[s].id)
            THEN [get[s] EXCEPT !.pc = "read", !.ino = dir[get[s].id]]
            ELSE [get[s] EXCEPT !.pc = "done", !.resp.body = "broken"])
    /\ UNCHANGED <<now, stream_cache, dir, inode, mint, fetch, sweep, lastMint, swept, minted, failed, requests>>

\* f.read(64 * 1024): the next chunk of the file is sent.
GetRead(s) ==
    LET c == inode[get[s].ino] IN
    /\ get[s].pc = "read"
    /\ get[s].pos < Len(c)
    /\ get' = Put(get, s, [get[s] EXCEPT !.pos = @ + 1, !.zeros = @ \/ ~c[get[s].pos + 1]])
    /\ UNCHANGED <<now, stream_cache, dir, inode, mint, fetch, sweep, lastMint, swept, minted, failed, requests>>

\* f.read returns nothing: the generator ends and the file is closed.
GetEof(s) ==
    LET i == get[s].ino IN
    /\ get[s].pc = "read"
    /\ get[s].pos >= Len(inode[i])
    /\ get' = Put(get, s, [get[s] EXCEPT !.pc = "done", !.ino = 0])
    /\ inode' = Release(i, Readers(i) \ {s}, Writers(i), Named(i))
    /\ UNCHANGED <<now, stream_cache, dir, mint, fetch, sweep, lastMint, swept, minted, failed, requests>>

\* The response has been delivered.
GetClose(s) ==
    /\ get[s].pc = "done"
    /\ get' = Put(get, s, IdleGet)
    /\ UNCHANGED <<now, stream_cache, dir, inode, mint, fetch, sweep, lastMint, swept, minted, failed, requests>>

\* ------------------------------------------------------------ fetch_file
\* client.start, client.get_messages and the two media checks, which touch
\* nothing shared: the thread returns on media that is not an audio/mpeg
\* document and on an exception.
FetchRefused(s) ==
    /\ fetch[s].pc = "connect"
    /\ fetch' = Put(fetch, s, IdleFetch)
    /\ failed' = failed \cup {fetch[s].id}
    /\ UNCHANGED <<now, stream_cache, dir, inode, mint, get, sweep, lastMint, swept, minted, requests>>

\* The media is an audio/mpeg document: open(file_path, 'wb') creates the file
\* under its final name, or truncates the one that exists.
FetchOpen(s) ==
    LET id == fetch[s].id
        i == IF Exists(id) THEN dir[id] ELSE FreeInode
    IN
    /\ fetch[s].pc = "connect"
    /\ i # 0
    /\ dir' = [dir EXCEPT ![id] = i]
    /\ inode' = [inode EXCEPT ![i] = <<>>]
    /\ fetch' = Put(fetch, s, [fetch[s] EXCEPT !.pc = "write", !.ino = i, !.off = 0])
    /\ UNCHANGED <<now, stream_cache, mint, get, sweep, lastMint, swept, minted, failed, requests>>

\* One round of `for chunk in client.iter_download(...)`: f.write(chunk).
FetchWrite(s) ==
    /\ fetch[s].pc = "write"
    /\ fetch[s].off < NChunks(fetch[s].id)
    /\ inode' = [inode EXCEPT ![fetch[s].ino] = WriteAt(@, fetch[s].off)]
    /\ fetch' = Put(fetch, s, [fetch[s] EXCEPT !.off = @ + 1])
    /\ UNCHANGED <<now, stream_cache, dir, mint, get, sweep, lastMint, swept, minted, failed, requests>>

\* iter_download raises: the with block closes the file, the except clause logs
\* and the thread returns; what was written stays under the final name.
FetchError(s) ==
    LET i == fetch[s].ino IN
    /\ fetch[s].pc = "write"
    /\ fetch[s].off < NChunks(fetch[s].id)
    /\ fetch' = Put(fetch, s, IdleFetch)
    /\ inode' = Release(i, Readers(i), Writers(i) \ {s}, Named(i))
    /\ failed' = failed \cup {fetch[s].id}
    /\ UNCHANGED <<now, stream_cache, dir, mint, get, sweep, lastMint, swept, minted, requests>>

\* The download is exhausted: the file is closed and the thread ends.
FetchDone(s) ==
    LET i == fetch[s].ino IN
    /\ fetch[s].pc = "write"
    /\ fetch[s].off = NChunks(fetch[s].id)
    /\ fetch' = Put(fetch, s, IdleFetch)
    /\ inode' = Release(i, Readers(i), Writers(i) \ {s}, Named(i))
    /\ UNCHANGED <<now, stream_cache, dir, mint, get, sweep, lastMint, swept, minted, failed, requests>>

\* ------------------------------------------------------------ cleanup_old_files
\* listing: the <id>.mp3 names os.listdir returned that are still to be handled;
\* foreign: the listing also holds a name ending in .mp3 whose stem is no
\* integer; now: the time read at the start of the cycle; cur: the id whose
\* file was just removed.
IdleSweep ==
    [pc |-> "sleep", now |-> 0, listing |-> {}, foreign |-> FALSE, cur |-> 0, due |-> {}]

\* A cycle starts: now = datetime.utcnow() and os.listdir(CACHE_DIR), which
\* returns the files of the handlers and whatever else was put in the
\* directory.  due records the ids whose entry is past its TTL at this time.
SweepStart ==
    /\ sweep.pc = "sleep"
    /\ \E foreign \in BOOLEAN :
         sweep' = [pc |-> "loop", now |-> now, listing |-> {id \in Ids : Exists(id)},
                   foreign |-> foreign, cur |-> 0,
                   due |-> {id \in Ids : Expired(id, now)}]
    /\ UNCHANGED <<now, stream_cache, dir, inode, mint, get, fetch, lastMint, swept, minted, failed, requests>>

\* A listed file whose id has no entry, or an entry that is not past its TTL,
\* is left alone.
SweepSkip(id) ==
    /\ sweep.pc = "loop"
    /\ id \in sweep.listing
    /\ ~Expired(id, sweep.now)
    /\ sweep' = [sweep EXCEPT !.listing = @ \ {id}]
    /\ UNCHANGED <<now, stream_cache, dir, inode, mint, get, fetch, lastMint, swept, minted, failed, requests>>

\* os.remove(file_path) of a listed file whose entry is past its TTL.
SweepRemove(id) ==
    LET i == dir[id] IN
    /\ sweep.pc = "loop"
    /\ id \in sweep.listing
    /\ Expired(id, sweep.now)
    /\ Exists(id)
    /\ dir' = [dir EXCEPT ![id] = 0]
    /\ inode' = Release(i, Readers(i), Writers(i), FALSE)
    /\ sweep' = [sweep EXCEPT !.pc = "del", !.cur = id]
    /\ UNCHANGED <<now, stream_cache, mint, get, fetch, lastMint, swept, minted, failed, requests>>

\* os.remove raises (the file is gone, or another thread holds it open and the
\* platform refuses to remove an open file): the except clause around the loop
\* ends the cycle.
SweepRemoveFails(id) ==
    /\ sweep.pc = "loop"
    /\ id \in sweep.listing
    /\ Expired(id, sweep.now)
    /\ ~Exists(id) \/ Readers(dir[id]) \cup Writers(dir[id]) # {}
    /\ sweep' = IdleSweep
    /\ UNCHANGED <<now, stream_cache, dir, inode, mint, get, fetch, lastMint, swept, minted, failed, requests>>

\* int(filename.replace(".mp3", "")) raises ValueError on the foreign name: the
\* except clause around the loop ends the cycle.
SweepForeign ==
    /\ sweep.pc = "loop"
    /\ sweep.foreign
    /\ sweep' = IdleSweep
    /\ UNCHANGED <<now, stream_cache, dir, inode, mint, get, fetch, lastMint, swept, minted, failed, requests>>

\* del stream_cache[message_id], after the file was removed.
SweepDel ==
    /\ sweep.pc = "del"
    /\ stream_cache' = Del(sweep.cur)
    /\ sweep' = [sweep EXCEPT !.pc = "loop", !.cur = 0, !.listing = @ \ {sweep.cur}]
    /\ lastMint' = [lastMint EXCEPT ![sweep.cur] = NoEntry]
    /\ mint' = [s \in DOMAIN mint |->
                  IF mint[s].id = sweep.cur THEN [mint[s] EXCEPT !.prev = NoEntry] ELSE mint[s]]
    /\ UNCHANGED <<now, dir, inode, get, fetch, swept, minted, failed, requests>>

\* The loop over the listing is over: the cycle is complete, the task sleeps.
SweepEnd ==
    /\ sweep.pc = "loop"
    /\ sweep.listing = {}
    /\ ~sweep.foreign
    /\ sweep' = IdleSweep
    /\ swept' = swept \cup sweep.due
    /\ UNCHANGED <<now, stream_cache, dir, inode, mint, get, fetch, lastMint, minted, failed, requests>>

\* ------------------------------------------------------------ the clock
Tick ==
    /\ now < MaxTime
    /\ now' = now + 1
    /\ UNCHANGED <<stream_cache, dir, inode, mint, get, fetch, sweep, lastMint, swept, minted, failed, requests>>

\* ------------------------------------------------------------ specification
Init ==
    /\ now = 0
    /\ stream_cache = << >>
    /\ dir = [id \in Ids |-> 0]
    /\ inode = [i \in Inodes |-> << >>]
    /\ mint = [s \in 1..MaxMint |-> IdleMint]
    /\ get = [s \in 1..MaxGet |-> IdleGet]
    /\ fetch = [s \in 1..MaxFetch |-> IdleFetch]
    /\ sweep = IdleSweep
    /\ lastMint = [id \in Ids |-> NoEntry]
    /\ swept = {}
    /\ minted = {}
    /\ failed = {}
    /\ requests = 0

Next ==
    \/ MintInvalid
    \/ \E id \in Ids : MintCheck(id)
    \/ \E s \in 1..MaxMint : MintRead(s) \/ MintCreate(s) \/ MintReply(s)
    \/ \E id \in Ids, range \in RangeHeaders : GetExists(id, range)
    \/ \E s \in 1..MaxGet : GetMember(s) \/ GetExpiry(s) \/ GetOpen(s) \/ GetRead(s)
                               \/ GetEof(s) \/ GetClose(s)
    \/ \E s \in 1..MaxFetch : FetchRefused(s) \/ FetchOpen(s) \/ FetchWrite(s)
                                 \/ FetchError(s) \/ FetchDone(s)
    \/ SweepStart
    \/ \E id \in Ids : SweepSkip(id) \/ SweepRemove(id) \/ SweepRemoveFails(id)
    \/ SweepForeign
    \/ SweepDel
    \/ SweepEnd
    \/ Tick

Spec == Init /\ [][Next]_vars

\* ------------------------------------------------------------ claims
\* The fetch_file threads that have been started for id and have not returned.
Running(id) == {s \in DOMAIN fetch : fetch[s].pc # "idle" /\ fetch[s].id = id}

\* The slots of get whose response is decided.
Answered == {s \in DOMAIN get : get[s].pc \in {"open", "read", "done"}}

\* C1: single-flight -- for every message id at most one fetch_file thread is
\* running at any time.
C1_SingleFlight == \A id \in Ids : Cardinality(Running(id)) <= 1

\* C2: no partial artifact is served -- whenever a request has the artifact file
\* open for reading, the file holds the complete payload.
C2_NoPartialRead ==
    \A s \in DOMAIN get :
        get[s].pc = "read" => Complete(inode[get[s].ino], get[s].id)

\* C3: TTL gates every read -- a request decided while the entry of its id is
\* past its TTL is answered 410, whether or not the artifact file exists.
C3_ExpiredIsGone ==
    \A s \in Answered : get[s].entryAt = "expired" => get[s].resp.status = 410

\* C4: mint idempotence -- a handle_link that starts after an earlier one for the
\* same id has returned, before that entry expires and with no sweep of the id
\* in between, replies the same url and the same expires_at.
C4_MintIdempotent ==
    \A s \in DOMAIN mint :
        (mint[s].pc = "done" /\ mint[s].out = "ok" /\ mint[s].prev # NoEntry)
            => mint[s].reply = mint[s].prev

\* C5: re-mint after expiry -- handle_link never replies with an entry that is
\* past its TTL; it replies with an entry that is servable.
C5_NeverRepliesExpired ==
    \A s \in DOMAIN mint :
        (mint[s].pc = "done" /\ mint[s].out = "ok") => ~mint[s].stale

\* C6: expires_at is fixed -- no step changes the entry of an id that stays in
\* the registry.
C6_EntryFixed ==
    [][\A id \in DOMAIN stream_cache \cap DOMAIN stream_cache' :
          stream_cache'[id] = stream_cache[id]]_vars

\* C7: after a complete sweeper cycle that ran with the entry of an id past its
\* TTL, the artifact file of the id does not exist and every request decided
\* from then on is answered 404 or 410, without artifact bytes.
C7_SweptIsGone ==
    /\ \A id \in swept : ~Exists(id)
    /\ \A s \in Answered :
          get[s].afterSweep => get[s].resp.status \in {404, 410} /\ get[s].resp.body = "text"

\* bytes=start-end with start <= end < size
ValidRange(r, size) == 0 <= r.start /\ r.start <= r.end /\ r.end < size

\* start at or beyond size, or start > end
UnsatisfiableRange(r, size) ==
    r # NoRange /\ (r.start >= size \/ (r.end # -1 /\ r.start > r.end))

\* A request answered from a materialized artifact of a live entry.
Materialized(s) == s \in Answered /\ get[s].fileAt = "complete" /\ get[s].entryAt = "live"

\* C8: partial content -- a request with a valid Range on a materialized artifact
\* is answered 206 with Content-Range start-end, Content-Length end - start + 1.
C8_PartialContent ==
    \A s \in DOMAIN get :
        (Materialized(s) /\ ValidRange(get[s].range, PayloadSize(get[s].id)))
            => /\ get[s].resp.status = 206
               /\ get[s].resp.content_range = get[s].range
               /\ get[s].resp.content_length = get[s].range.end - get[s].range.start + 1

\* C9: unsatisfiable range -- a request whose Range starts at or beyond the size
\* of the artifact, or has start > end, is answered 416 without artifact bytes.
C9_RangeNotSatisfiable ==
    \A s \in DOMAIN get :
        (Materialized(s) /\ UnsatisfiableRange(get[s].range, PayloadSize(get[s].id)))
            => get[s].resp.status = 416 /\ get[s].resp.body # "file"

\* C10: unknown versus expired -- a request for an id that was never minted and
\* has no artifact is answered 404, and 410 is answered only when the entry
\* exists and is past its TTL.
C10_UnknownIs404 ==
    \A s \in Answered :
        /\ (get[s].id \notin minted /\ get[s].fileAt = "absent") => get[s].resp.status = 404
        /\ get[s].resp.status = 410 => get[s].entryAt = "expired"

\* C11: retrieval precedes delivery -- every 200 response to a request without
\* a Range header is decided with the complete artifact on disk and has the
\* artifact as its body: all of its chunks, once it has been delivered.
C11_RetrievalPrecedesDelivery ==
    \A s \in Answered :
        (get[s].range = NoRange /\ get[s].resp.status = 200)
            => /\ get[s].fileAt = "complete"
               /\ get[s].resp.body = "file"
               /\ get[s].pc = "done" => get[s].pos = NChunks(get[s].id) /\ ~get[s].zeros

\* C12: a failed download leaves no artifact -- when the iter_download loop of
\* a fetch_file thread raises and no other retrieval of the id is running, no
\* file of the id is left in the cache directory.
C12_FailedLeavesNoFile ==
    [][\A s \in DOMAIN fetch :
          (/\ fetch[s].pc = "write"
           /\ fetch[s].off < NChunks(fetch[s].id)
           /\ fetch'[s].pc = "idle"
           /\ \A t \in DOMAIN fetch : fetch'[t].pc # "idle" => fetch'[t].id # fetch[s].id)
              => dir'[fetch[s].id] = 0]_vars

\* C13: failure is terminal -- a request that arrives after a retrieval of its
\* id has ended in failure starts no fetch_file thread, unless a mint has
\* stored a new entry since the failure.
C13_FailureTerminal ==
    [][\A g \in DOMAIN get :
          (/\ get[g].afterFailure
           /\ get[g].pc = "expiry"
           /\ \E s \in DOMAIN fetch :
                 fetch[s].pc = "idle" /\ fetch'[s].pc # "idle" /\ fetch'[s].id = get[g].id)
              => get[g].id \notin failed]_vars

\* C14: evicted implies no artifact -- once the sweeper has finished the cycle
\* and no retrieval of the id is running, a minted id that has no entry in the
\* registry has no file in the cache directory.
C14_EvictedHasNoFile ==
    sweep.pc = "sleep"
        => \A id \in minted \ DOMAIN stream_cache : Running(id) = {} => ~Exists(id)

\* C15: every expired entry is reclaimed -- an entry that was past its TTL when
\* a sweeper cycle started is not in the registry after the cycle has run to
\* its end, whether or not a file of the id was on disk.
C15_ExpiredReclaimed == \A id \in swept : id \notin DOMAIN stream_cache

\* The listed files of expired entries that the cycle has not handled.
LeftBehind == {id \in sweep.listing : Exists(id) /\ Expired(id, sweep.now)}

\* C16: sweep isolation -- when a cycle ends, the listed files of expired
\* entries are all removed, except for at most the one file that os.remove
\* could not remove; a name that is no integer leaves none behind.
C16_SweepIsolation ==
    [][(sweep.pc = "loop" /\ sweep'.pc = "sleep")
          => \A id \in LeftBehind :
                LeftBehind = {id} /\ Readers(dir[id]) \cup Writers(dir[id]) # {}]_vars

\* C17: eviction does not break a delivery in progress -- a request that found
\* the complete artifact at the exists test and was answered with the streaming
\* response delivers every chunk of the artifact, whatever the sweeper does
\* after the test.
C17_DeliveryCompletes ==
    \A s \in DOMAIN get :
        (get[s].pc = "done" /\ get[s].fileAt = "complete")
            => /\ get[s].resp.body = "file"
               /\ get[s].pos = NChunks(get[s].id)
               /\ ~get[s].zeros

\* C18: registry accesses are atomic with respect to the sweeper -- no
\* handle_link and no GET /stream fails with an internal error (500).
C18_NoInternalError ==
    /\ \A s \in DOMAIN mint : mint[s].out # "error"
    /\ \A s \in DOMAIN get : get[s].resp.status # 500

\* C19: retrieval needs a live entry -- a fetch_file thread is started only in
\* a step at which the registry holds an entry of the id whose expires_at is
\* not earlier than the clock.
C19_RetrievalNeedsLiveEntry ==
    [][\A s \in DOMAIN fetch :
          (fetch[s].pc = "idle" /\ fetch'[s].pc # "idle")
              => /\ fetch'[s].id \in DOMAIN stream_cache
                 /\ stream_cache[fetch'[s].id].expires_at >= now]_vars

\* A request has started the retrieval of its id and was answered "started".
C19_Witness ==
    \E s \in DOMAIN fetch, g \in DOMAIN get :
        /\ fetch[s].pc = "connect"
        /\ get[g].pc = "done" /\ get[g].resp = Started /\ get[g].id = fetch[s].id

\* C20: the sweeper never reclaims live data -- a file leaves the cache
\* directory and an entry leaves the registry only in a step of a sweeper
\* cycle and only for an id whose entry is in the registry with expires_at
\* earlier than the now of the cycle; the file and the entry of an id that is
\* not expired are left as they are.
C20_SweeperSparesLive ==
    [][\A id \in Ids :
          (\/ dir[id] # 0 /\ dir'[id] = 0
           \/ id \in DOMAIN stream_cache /\ id \notin DOMAIN stream_cache')
              => /\ sweep.pc # "sleep"
                 /\ id \in DOMAIN stream_cache
                 /\ stream_cache[id].expires_at < sweep.now]_vars

====
